---- MODULE Spec2Model ----
(***************************************************************************)
(* solhydra: a run of the command line tool as a state machine.            *)
(*                                                                         *)
(* The repository holds two builds of the program: src/lib/index.js (the   *)
(* current one, with a per-run workspace and a SIGINT handler) and         *)
(* src/unnamed/part_000 (an earlier one, with the fixed workspace path and *)
(* no handler).  The variable build says which one the runs execute.       *)
(*                                                                         *)
(* A run (one node process) is a record proc[r].  The synchronous code of  *)
(* start() is cut at its statements; the process yields to the event loop  *)
(* only at its awaits, and only there a pending SIGINT reaches the handler.*)
(***************************************************************************)
EXTENDS Integers, Sequences, FiniteSets, TLC

VARIABLES
    build,          \* which build of the program the runs execute
    now,            \* the wall clock, Date.now()
    proc,           \* the runs (node processes)
    workspaces,     \* the workspace directories on disk, by path
    fleet,          \* the docker-compose projects whose containers run
    stage,          \* report generation: "off", "ready", "done"
    flattenDir,     \* the entries of input/contracts_flatten, as readdirSync gives them
    contractNames,  \* the result of getContractNames
    fileOutputs,    \* the result of generateFileOutputs
    filePath,       \* the argument of getSubDirPathSplitted
    nestedPath,     \* the result of getSubDirPathSplitted
    combineDir,     \* the names of the files in input/contracts_combine
    contractsTree,  \* the files under input/contracts, as paths from there
    outputDir,      \* output/<dir>/<file>: the text of each tool output file
    toolOutputNames, \* the result of getToolOutputNames
    toolOutputs     \* the result of generateToolOutputs

pipeline == <<build, now, proc, workspaces, fleet>>

normalizer == <<filePath, nestedPath>>

\* what report generation reads
disk == <<flattenDir, combineDir, contractsTree, outputDir>>

\* what report generation computes
model == <<contractNames, fileOutputs, toolOutputNames, toolOutputs>>

report == <<stage, disk, model, normalizer>>

vars == <<build, now, proc, workspaces, fleet, stage, flattenDir, contractNames, fileOutputs,
          filePath, nestedPath, combineDir, contractsTree, outputDir, toolOutputNames,
          toolOutputs>>

(***************************************************************************)
(* Bounds                                                                  *)
(***************************************************************************)
\* the wall clock (Date.now()) runs from 0 to MaxClock
MaxClock == 1

Runs == {1, 2}

Builds == {"lib", "old"}

(***************************************************************************)
(* Names of files, as sequences of characters                              *)
(***************************************************************************)
DotSol == <<".", "s", "o", "l">>

TokenSol == <<"T", "o", "k", "e", "n">> \o DotSol

\* the flattened files a source directory can give in the pipeline model
SourceFiles == {TokenSol}

(***************************************************************************)
(* Static configuration                                                    *)
(***************************************************************************)
AVAILABLE_TOOLS ==
    {"mythril", "oyente", "solhint", "solidity-coverage", "solidity-analyzer",
     "surya", "solium"}

\* the words a user can give after the options
ToolArgs == {"mythril", "solidity-coverage", "solgraph"}

\* docker-compose.yml: the volumes of each service, each volume split at ":"
\* into <<host path, container path [, mode]>>, the host path being the
\* directories under the workspace
services ==
    [t \in AVAILABLE_TOOLS |->
        IF t = "surya"
        THEN {<<<<"input">>, "/app/input/">>,
              <<<<"output", "surya_graph">>, "/app/output/graph/">>,
              <<<<"output", "surya_describe">>, "/app/output/describe/">>,
              <<<<"output", "surya_parse">>, "/app/output/parse/">>,
              <<<<"output", "surya_ftrace">>, "/app/output/ftrace/">>,
              <<<<"output", "surya_inheritance">>, "/app/output/inheritance/">>}
        ELSE {<<<<"input">>, "/app/input/">>,
              <<<<"output", t>>, "/app/output/">>}]

\* the access mode of a volume "host:container[:mode]"; docker mounts a
\* volume read-write unless the third field says ro
MountMode(volume) == IF Len(volume) >= 3 THEN volume[3] ELSE "rw"

\* can the containers of tool t write under the workspace input directory
InputWritable(t) ==
    \E v \in services[t] : Head(v[1]) = "input" /\ MountMode(v) = "rw"

\* the directories under output/ that the service of tool t mounts
OutputDirs(t) == {v[1][2] : v \in {w \in services[t] : Head(w[1]) = "output"}}

(***************************************************************************)
(* Paths                                                                   *)
(***************************************************************************)
\* lib: .workspaces/workspace<WORKSPACE_ID>; old: the one directory workspace
WORKSPACE_DIR_PATH(r) ==
    IF build = "lib" THEN <<".workspaces", proc[r].WORKSPACE_ID>>
    ELSE <<"workspace", 0>>

Exists(path) == path \in DOMAIN workspaces

\* rimraf.sync(path): removes the tree, and is silent when there is none
rimraf(path) == [p \in (DOMAIN workspaces) \ {path} |-> workspaces[p]]

\* mkdirp.sync(path/...): creates the tree when missing, keeps what is there
mkdirp(path) ==
    [p \in (DOMAIN workspaces) \cup {path} |->
        IF p \in DOMAIN workspaces THEN workspaces[p] ELSE [flatten |-> {}]]

\* flatten({srcDir, destDir}): the flattened files appear in contracts_flatten
flatten(path, files) ==
    [p \in (DOMAIN workspaces) \cup {path} |->
        IF p = path THEN [flatten |-> files] ELSE workspaces[p]]

(***************************************************************************)
(* The command line                                                        *)
(***************************************************************************)
Argvs ==
    [contractDir : BOOLEAN, truffle : BOOLEAN, git : BOOLEAN,
     destFile : BOOLEAN, tools : SUBSET ToolArgs]

\* parseArgs, first check: exactly one of --contract-dir --truffle --git
OneSource(argv) ==
    ~ ( (~argv.contractDir /\ ~argv.truffle /\ ~argv.git)
        \/ (argv.contractDir /\ argv.truffle)
        \/ (argv.truffle /\ argv.git)
        \/ (argv.contractDir /\ argv.git) )

\* parseArgs, third check: every tool word is an enabled tool
ToolsInvalid(argv) == argv.tools \ {t \in argv.tools : t \in AVAILABLE_TOOLS} # {}

ToolsValid(argv) == ~ToolsInvalid(argv)

ArgsAccepted(argv) == OneSource(argv) /\ argv.destFile /\ ToolsValid(argv)

\* the services docker-compose up starts: the named ones, or all of them
Started(tools) == IF tools = {} THEN AVAILABLE_TOOLS ELSE tools

(***************************************************************************)
(* Processes                                                               *)
(***************************************************************************)
NoRun(argv) ==
    [pc |-> "absent", argv |-> argv, WORKSPACE_ID |-> 0,
     sigPending |-> FALSE, sigArrived |-> FALSE, handled |-> FALSE,
     exitCode |-> -1, exitVia |-> "none",
     launched |-> {}, touched |-> FALSE, created |-> FALSE,
     closeCode |-> -1, reportInvoked |-> FALSE, reportWritten |-> FALSE,
     stopAsked |-> FALSE, prepared |-> {}, listing |-> {},
     stages |-> <<>>, overlapped |-> FALSE,
     handledAt |-> "none", afterHandler |-> FALSE]

NewRun(argv) == [NoRun(argv) EXCEPT !.pc = "load"]

Awaiting == {"awaitClone", "awaitNpm", "awaitTasks"}

Live(r) == proc[r].pc \notin {"absent", "exited"}

\* docker-compose up was spawned by the run and has not closed
Running(p) == "docker-compose" \in p.launched /\ p.closeCode = -1

\* a stage of start() begins: it is noted, and so is whether docker-compose
\* up is still running at that moment, and whether the SIGINT handler has run
Begin(p, name) ==
    [p EXCEPT !.stages = Append(@, name), !.overlapped = @ \/ Running(p),
              !.afterHandler = @ \/ p.handled]

\* process.exit(code)
Exit(p, code) == [p EXCEPT !.pc = "exited", !.exitCode = code, !.exitVia = "exit"]

\* an error nobody catches: node prints it and ends the process with status 1
Uncaught(p) == [p EXCEPT !.pc = "exited", !.exitCode = 1, !.exitVia = "uncaught"]

\* the outcomes of child_process.spawn: the child runs; spawn throws; or the
\* command cannot be started and the child emits 'error' on the next tick
SpawnOutcomes == {"ok", "throw", "error"}


(***************************************************************************)
(* Initial states                                                          *)
(***************************************************************************)
NoWorkspaces == [p \in {} |-> [flatten |-> {}]]

\* report generation is modelled on its own, see ReportSpec
ReportOff ==
    /\ stage = "off"
    /\ flattenDir = <<>>
    /\ contractNames = <<>>
    /\ fileOutputs = <<>>
    /\ filePath = <<>>
    /\ nestedPath = <<>>
    /\ combineDir = {}
    /\ contractsTree = {}
    /\ outputDir = <<>>
    /\ toolOutputNames = {}
    /\ toolOutputs = <<>>

\* a stale workspace directory can only be there under the fixed path
StaleWorkspaces ==
    IF build = "lib" THEN {NoWorkspaces}
    ELSE {NoWorkspaces, [p \in {<<"workspace", 0>>} |-> [flatten |-> {}]]}

\* one invocation of the program
Init ==
    /\ build \in Builds
    /\ now = 0
    /\ \E argv \in Argvs : proc = [r \in Runs |-> IF r = 1 THEN NewRun(argv) ELSE NoRun(argv)]
    /\ workspaces \in StaleWorkspaces
    /\ fleet = {}
    /\ ReportOff

(***************************************************************************)
(* The steps of a run                                                      *)
(***************************************************************************)
\* time passes
Tick ==
    /\ now < MaxClock
    /\ now' = now + 1
    /\ UNCHANGED <<build, proc, workspaces, fleet, report>>

\* the module is loaded: the constants are computed (WORKSPACE_ID from the
\* clock), the SIGINT handler is registered, start() is called
Load(r) ==
    /\ proc[r].pc = "load"
    /\ proc' = [proc EXCEPT ![r] =
                  [@ EXCEPT !.WORKSPACE_ID = IF build = "lib" THEN now ELSE 0,
                            !.pc = IF build = "lib" THEN "parseArgs" ELSE "rimraf0"]]
    /\ UNCHANGED <<build, now, workspaces, fleet, report>>

\* part_000 only: start() first removes the workspace directory
StartRimraf(r) ==
    /\ proc[r].pc = "rimraf0"
    /\ workspaces' = rimraf(WORKSPACE_DIR_PATH(r))
    /\ proc' = [proc EXCEPT ![r] = [@ EXCEPT !.touched = TRUE, !.pc = "parseArgs"]]
    /\ UNCHANGED <<build, now, fleet, report>>

\* parseArgs: each failed check prints the help and calls process.exit(1)
parseArgs(r) ==
    /\ proc[r].pc = "parseArgs"
    /\ LET argv == proc[r].argv IN
       proc' = [proc EXCEPT ![r] =
                  IF ~OneSource(argv) THEN Exit(@, 1)
                  ELSE IF ~argv.destFile THEN Exit(@, 1)
                  ELSE IF ~ToolsValid(argv) THEN Exit(@, 1)
                  ELSE [@ EXCEPT !.pc = IF argv.git /\ ~argv.truffle
                                        THEN "cloneRepo" ELSE "setupWorkspace"]]
    /\ UNCHANGED <<build, now, workspaces, fleet, report>>

\* cloneRepo: the directory for the clone is made and git clone is started
cloneRepo(r) ==
    /\ proc[r].pc = "cloneRepo"
    /\ workspaces' = mkdirp(WORKSPACE_DIR_PATH(r))
    /\ proc' = [proc EXCEPT ![r] =
                  [@ EXCEPT !.touched = TRUE, !.created = TRUE,
                            !.launched = @ \cup {"git"}, !.pc = "awaitClone"]]
    /\ UNCHANGED <<build, now, fleet, report>>

\* the callback of gitClone: with an error the promise is rejected, without
\* one npm install is spawned
cloneDone(r) ==
    /\ proc[r].pc = "awaitClone"
    /\ \E err \in BOOLEAN, spawned \in SpawnOutcomes :
         proc' = [proc EXCEPT ![r] =
                    IF err \/ spawned = "throw" THEN [@ EXCEPT !.pc = "catch"]
                    ELSE IF spawned = "error" THEN Uncaught(@)
                    ELSE [@ EXCEPT !.launched = @ \cup {"npm"}, !.pc = "awaitNpm"]]
    /\ UNCHANGED <<build, now, workspaces, fleet, report>>

\* npm install closes
npmClose(r) ==
    /\ proc[r].pc = "awaitNpm"
    /\ \E code \in {0, 1} :
         proc' = [proc EXCEPT ![r] =
                    [@ EXCEPT !.pc = IF code = 0 THEN "setupWorkspace" ELSE "catch"]]
    /\ UNCHANGED <<build, now, workspaces, fleet, report>>

\* setupWorkspace, then the clone is removed from the workspace; a copy that
\* fails throws after the input directory was made
setupWorkspace(r) ==
    /\ proc[r].pc = "setupWorkspace"
    /\ \E files \in SUBSET SourceFiles, thrown \in BOOLEAN :
         /\ workspaces' = IF thrown THEN mkdirp(WORKSPACE_DIR_PATH(r))
                          ELSE flatten(WORKSPACE_DIR_PATH(r), files)
         /\ proc' = [proc EXCEPT ![r] =
                       [Begin(@, "prepare") EXCEPT
                                 !.touched = TRUE, !.created = TRUE,
                                 !.prepared = IF thrown THEN {} ELSE files,
                                 !.pc = IF thrown THEN "catch" ELSE "executeTasks"]]
    /\ UNCHANGED <<build, now, fleet, report>>

\* executeTasks without the await: start() goes on once docker-compose up
\* is spawned
executeTasksNoAwait(r) ==
    /\ proc[r].pc = "executeTasks"
    /\ \E spawned \in SpawnOutcomes :
         /\ proc' = [proc EXCEPT ![r] =
                       IF spawned = "throw"
                       THEN [Begin(@, "schedule") EXCEPT !.pc = "catch"]
                       ELSE IF spawned = "error" THEN Uncaught(Begin(@, "schedule"))
                       ELSE [Begin(@, "schedule") EXCEPT
                                      !.launched = @ \cup {"docker-compose"},
                                      !.pc = "generateReport"]]
         /\ fleet' = IF spawned = "ok" THEN fleet \cup {WORKSPACE_DIR_PATH(r)} ELSE fleet
    /\ UNCHANGED <<build, now, workspaces, report>>

\* executeTasks: docker-compose up is spawned
executeTasks(r) ==
    /\ proc[r].pc = "executeTasks"
    /\ \E spawned \in SpawnOutcomes :
         /\ proc' = [proc EXCEPT ![r] =
                       IF spawned = "throw"
                       THEN [Begin(@, "schedule") EXCEPT !.pc = "catch"]
                       ELSE IF spawned = "error" THEN Uncaught(Begin(@, "schedule"))
                       ELSE [Begin(@, "schedule") EXCEPT
                                      !.launched = @ \cup {"docker-compose"},
                                      !.pc = "awaitTasks"]]
         /\ fleet' = IF spawned = "ok" THEN fleet \cup {WORKSPACE_DIR_PATH(r)} ELSE fleet
    /\ UNCHANGED <<build, now, workspaces, report>>

\* a running tool container changes the files under /app/input/, which its
\* mount lets it do when the volume is not read-only
toolWritesInput(r) ==
    /\ proc[r].pc = "awaitTasks"
    /\ WORKSPACE_DIR_PATH(r) \in fleet
    /\ Exists(WORKSPACE_DIR_PATH(r))
    /\ \E t \in Started(proc[r].argv.tools), files \in SUBSET SourceFiles :
         /\ InputWritable(t)
         /\ files # workspaces[WORKSPACE_DIR_PATH(r)].flatten
         /\ workspaces' = flatten(WORKSPACE_DIR_PATH(r), files)
    /\ UNCHANGED <<build, now, proc, fleet, report>>

\* tasksClose with the close status ignored: the promise is always resolved
tasksCloseResolves(r) ==
    /\ proc[r].pc = "awaitTasks"
    /\ WORKSPACE_DIR_PATH(r) \in fleet
    /\ \E code \in {0, 1} :
         proc' = [proc EXCEPT ![r] =
                    [@ EXCEPT !.closeCode = code, !.pc = "generateReport"]]
    /\ fleet' = fleet \ {WORKSPACE_DIR_PATH(r)}
    /\ UNCHANGED <<build, now, workspaces, report>>

\* docker-compose up closes, all containers of the project have ended; the
\* promise is resolved on status 0 and rejected otherwise
tasksClose(r) ==
    /\ proc[r].pc = "awaitTasks"
    /\ WORKSPACE_DIR_PATH(r) \in fleet
    /\ \E code \in {0, 1} :
         proc' = [proc EXCEPT ![r] =
                    [@ EXCEPT !.closeCode = code,
                              !.pc = IF code = 0 THEN "generateReport" ELSE "catch"]]
    /\ fleet' = fleet \ {WORKSPACE_DIR_PATH(r)}
    /\ UNCHANGED <<build, now, workspaces, report>>

\* generateReport: the listing is read and the report is written; a read of a
\* directory that is not there throws, and so can the rendering and the write
generateReport(r) ==
    /\ proc[r].pc = "generateReport"
    /\ \E thrown \in BOOLEAN :
       proc' = [proc EXCEPT ![r] =
                  IF Exists(WORKSPACE_DIR_PATH(r)) /\ ~thrown
                  THEN [Begin(@, "report") EXCEPT
                                 !.reportInvoked = TRUE, !.reportWritten = TRUE,
                                 !.listing = workspaces[WORKSPACE_DIR_PATH(r)].flatten,
                                 !.pc = "finish"]
                  ELSE [Begin(@, "report") EXCEPT
                                 !.reportInvoked = TRUE, !.pc = "catch"]]
    /\ UNCHANGED <<build, now, workspaces, fleet, report>>

\* the end of the try block: the workspace is removed, process.exit(0)
finish(r) ==
    /\ proc[r].pc = "finish"
    /\ workspaces' = rimraf(WORKSPACE_DIR_PATH(r))
    /\ proc' = [proc EXCEPT ![r] =
                  Exit([Begin(@, "teardown") EXCEPT !.touched = TRUE], 0)]
    /\ UNCHANGED <<build, now, fleet, report>>

\* the catch block: the workspace is removed, process.exit(1)
catch(r) ==
    /\ proc[r].pc = "catch"
    /\ workspaces' = rimraf(WORKSPACE_DIR_PATH(r))
    /\ proc' = [proc EXCEPT ![r] =
                  Exit([Begin(@, "teardown") EXCEPT !.touched = TRUE], 1)]
    /\ UNCHANGED <<build, now, fleet, report>>

(***************************************************************************)
(* Interrupts                                                              *)
(***************************************************************************)
\* SIGINT is sent to the process; with the handler registered (lib) it waits
\* for the event loop
sigint(r) ==
    /\ build = "lib"
    /\ Live(r) /\ proc[r].pc # "load"
    /\ ~proc[r].sigPending
    /\ proc' = [proc EXCEPT ![r] = [@ EXCEPT !.sigPending = TRUE, !.sigArrived = TRUE]]
    /\ UNCHANGED <<build, now, workspaces, fleet, report>>

\* the handler without its process.exit(): once docker-compose stop has
\* returned, the handler returns and the run goes on waiting
sigintHandlerReturns(r) ==
    /\ build = "lib"
    /\ proc[r].pc \in Awaiting
    /\ proc[r].sigPending
    /\ workspaces' = rimraf(WORKSPACE_DIR_PATH(r))
    /\ \E stopped \in BOOLEAN :
         /\ proc' = [proc EXCEPT ![r] =
                       LET p == [@ EXCEPT !.touched = TRUE, !.handled = TRUE,
                                          !.handledAt = proc[r].pc,
                                          !.sigPending = FALSE, !.stopAsked = TRUE]
                       IN  IF stopped THEN p ELSE Uncaught(p)]
         /\ fleet' = fleet
    /\ UNCHANGED <<build, now, report>>

\* the handler: the workspace is removed, docker-compose stop is run with
\* execSync (which throws when the command fails), process.exit()
sigintHandler(r) ==
    /\ build = "lib"
    /\ proc[r].pc \in Awaiting
    /\ proc[r].sigPending
    /\ workspaces' = rimraf(WORKSPACE_DIR_PATH(r))
    /\ \E stopped \in BOOLEAN :
         /\ proc' = [proc EXCEPT ![r] =
                       LET p == [@ EXCEPT !.touched = TRUE, !.handled = TRUE,
                                          !.handledAt = proc[r].pc,
                                          !.sigPending = FALSE, !.stopAsked = TRUE]
                       IN  IF stopped THEN Exit(p, 0) ELSE Uncaught(p)]
         /\ fleet' = IF stopped THEN fleet \ {WORKSPACE_DIR_PATH(r)} ELSE fleet
    /\ UNCHANGED <<build, now, report>>

\* part_000 registers no handler: SIGINT ends the process at once
sigintDefault(r) ==
    /\ build = "old"
    /\ Live(r) /\ proc[r].pc # "load"
    /\ proc' = [proc EXCEPT ![r] =
                  [@ EXCEPT !.sigArrived = TRUE, !.pc = "exited",
                            !.exitCode = 130, !.exitVia = "signal"]]
    /\ UNCHANGED <<build, now, workspaces, fleet, report>>

Step(r) ==
    \/ Load(r)
    \/ StartRimraf(r)
    \/ parseArgs(r)
    \/ cloneRepo(r)
    \/ cloneDone(r)
    \/ npmClose(r)
    \/ setupWorkspace(r)
    \/ executeTasks(r)
    \/ toolWritesInput(r)
    \/ tasksClose(r)
    \/ generateReport(r)
    \/ finish(r)
    \/ catch(r)
    \/ sigint(r)
    \/ sigintHandler(r)
    \/ sigintDefault(r)

Next == Tick \/ \E r \in Runs : Step(r)

Spec == Init /\ [][Next]_vars

(***************************************************************************)
(* Two invocations at the same time                                        *)
(***************************************************************************)
\* command lines that parseArgs accepts
ParArgvs ==
    {argv \in Argvs : ArgsAccepted(argv) /\ ~argv.truffle /\ argv.tools = {}}

InitPar ==
    /\ build \in Builds
    /\ now = 0
    /\ proc \in [Runs -> {NewRun(argv) : argv \in ParArgvs}]
    /\ workspaces = NoWorkspaces
    /\ fleet = {}
    /\ ReportOff

SpecPar == InitPar /\ [][Next]_vars

(***************************************************************************)
(* Report generation: file names and slugs                                 *)
(***************************************************************************)
\* the longest flattened name has MaxSegs segments before the extension
MaxSegs == 2

\* contracts_flatten holds at most MaxListing files
MaxListing == 2

Migrations == <<"M", "i", "g", "r", "a", "t", "i", "o", "n", "s">>

\* directory and file names that a source tree is made of
Segments == {<<"T">>, <<"t">>, <<"t", "-", "t">>, <<"s", "o", "l", "c">>, Migrations}

RECURSIVE JoinDot(_)
JoinDot(segs) ==
    IF Len(segs) = 1 THEN segs[1]
    ELSE segs[1] \o <<".">> \o JoinDot(Tail(segs))

\* the names soljitsu flatten gives: the path with "." for "/", ending in .sol
FlattenNames ==
    {JoinDot(segs) \o DotSol :
        segs \in UNION {[1..n -> Segments] : n \in 1..MaxSegs}}

\* the files a source tree can hold: directories, then the file name
TreeFiles ==
    {[i \in 1..Len(segs) |-> IF i = Len(segs) THEN segs[i] \o DotSol ELSE segs[i]] :
        segs \in UNION {[1..n -> Segments] : n \in 1..MaxSegs}}

\* what readdirSync can return: distinct entries
Listings ==
    {l \in UNION {[1..n -> FlattenNames] : n \in 0..MaxListing} :
        \A i, j \in DOMAIN l : i # j => l[i] # l[j]}

\* getContractNames without the filter: every entry of contracts_flatten
getContractNamesUnfiltered(dir) == dir

\* getContractNames: the entries of contracts_flatten but Migrations.sol, in
\* the order of the entries
RECURSIVE getContractNames(_)
getContractNames(dir) ==
    IF dir = <<>> THEN <<>>
    ELSE (IF Head(dir) # Migrations \o DotSol THEN <<Head(dir)>> ELSE <<>>)
            \o getContractNames(Tail(dir))

\* the first index at which pattern occurs in str, 0 when it does not
IndexOf(str, pattern) ==
    LET hits == {i \in 1..(Len(str) - Len(pattern) + 1) :
                    SubSeq(str, i, i + Len(pattern) - 1) = pattern}
    IN  IF hits = {} THEN 0 ELSE CHOOSE i \in hits : \A j \in hits : i <= j

\* String.prototype.replace with a string pattern: the first occurrence only
replace(str, pattern, by) ==
    LET i == IndexOf(str, pattern)
    IN  IF i = 0 THEN str
        ELSE SubSeq(str, 1, i - 1) \o by \o SubSeq(str, i + Len(pattern), Len(str))

\* String.prototype.replace with /\./g: every dot
replaceDots(str, by) == [i \in 1..Len(str) |-> IF str[i] = "." THEN by ELSE str[i]]

LowerOf(c) ==
    CASE c = "T" -> "t"
      [] c = "M" -> "m"
      [] OTHER -> c

\* String.prototype.toLowerCase
toLowerCase(str) == [i \in 1..Len(str) |-> LowerOf(str[i])]

\* the slug of generateFileOutputs
slug(contractName) ==
    toLowerCase(replaceDots(replace(contractName, DotSol, <<>>), "-"))

\* String.prototype.split('.')
RECURSIVE split(_)
split(str) ==
    LET i == IndexOf(str, <<".">>)
    IN  IF i = 0 THEN <<str>>
        ELSE <<SubSeq(str, 1, i - 1)>> \o split(SubSeq(str, i + 1, Len(str)))

\* the reduce of getSubDirPathSplitted from the element at idx on (the
\* elements are counted from 1 here)
RECURSIVE reducePath(_, _, _)
reducePath(arr, idx, memo) ==
    IF idx > Len(arr) THEN memo
    ELSE reducePath(arr, idx + 1,
            IF idx = Len(arr) THEN memo
            ELSE IF idx = Len(arr) - 1 THEN memo \o <<arr[idx] \o DotSol>>
            ELSE memo \o <<arr[idx]>>)

\* getSubDirPathSplitted with the extension put on the last element
getSubDirPathSplittedLast(path) ==
    LET arr == split(path)
    IN  [i \in 1..Len(arr) |-> IF i = Len(arr) THEN arr[i] \o DotSol ELSE arr[i]]

\* getSubDirPathSplitted with no extension put on the file name
getSubDirPathSplittedBare(path) ==
    LET arr == split(path)
    IN  SubSeq(arr, 1, Len(arr) - 1)

\* getSubDirPathSplitted: Governance.Leader.LeaderGov.sol gives
\* Governance, Leader, LeaderGov.sol
getSubDirPathSplitted(path) == reducePath(split(path), 1, <<>>)

\* the value of a property that is not set
undefined == <<"undefined">>

\* what readFileSync does on a path that is not there: it throws
ENOENT == <<"ENOENT">>

\* the text of the file called name in the input directory dir
InputText(dir, name) == <<dir>> \o name

\* fs.readFileSync on input/contracts_flatten/<name>
readFlatten(name) ==
    IF \E i \in DOMAIN flattenDir : flattenDir[i] = name
    THEN InputText("contracts_flatten", name) ELSE ENOENT

\* fs.readFileSync on input/contracts_combine/<name>
readCombine(name) ==
    IF name \in combineDir THEN InputText("contracts_combine", name) ELSE ENOENT

\* fs.readFileSync on input/contracts/<path>
readOriginal(path) ==
    IF path \in contractsTree THEN InputText("contracts", JoinDot(path)) ELSE ENOENT

\* generateFileOutputs with the combined file read without the existence check
generateFileOutputsUnguarded(names) ==
    [i \in 1..Len(names) |->
        [name |-> names[i],
         slug |-> slug(names[i]),
         content |->
            [flatten |-> readFlatten(names[i]),
             combine |-> readCombine(names[i]),
             original |-> IF getSubDirPathSplitted(names[i]) \in contractsTree
                          THEN readOriginal(getSubDirPathSplitted(names[i]))
                          ELSE undefined]]]

\* generateFileOutputs: one entry per contract name, in the order of the names
generateFileOutputs(names) ==
    [i \in 1..Len(names) |->
        [name |-> names[i],
         slug |-> slug(names[i]),
         content |->
            [flatten |-> readFlatten(names[i]),
             combine |-> IF names[i] \in combineDir
                         THEN readCombine(names[i]) ELSE undefined,
             original |-> IF getSubDirPathSplitted(names[i]) \in contractsTree
                          THEN readOriginal(getSubDirPathSplitted(names[i]))
                          ELSE undefined]]]

(***************************************************************************)
(* Report generation: the tool outputs                                     *)
(***************************************************************************)
\* toolOutputFileTypeMap without the entries of the directories of surya
toolOutputFileTypeMapToolNames ==
    [t \in {"mythril", "oyente", "solhint", "solidity-coverage",
            "solidity-analyzer", "solium"} |->
        CASE t = "mythril" -> "markdown"
          [] t = "solidity-coverage" -> "html"
          [] OTHER -> "text"]

toolOutputFileTypeMap ==
    [t \in {"mythril", "oyente", "surya_graph", "surya_describe", "surya_parse",
            "surya_ftrace", "surya_inheritance", "solhint", "solidity-coverage",
            "solidity-analyzer", "solium"} |->
        CASE t = "mythril" -> "markdown"
          [] t \in {"surya_graph", "surya_inheritance"} -> "image"
          [] t = "solidity-coverage" -> "html"
          [] OTHER -> "text"]

\* toolOutputFileTypeMap[name], which is undefined for a name not in the map
TypeOf(name) ==
    IF name \in DOMAIN toolOutputFileTypeMap THEN toolOutputFileTypeMap[name]
    ELSE "undefined"

\* markdownConverter.makeHtml on a text of one plain paragraph
makeHtml(text) ==
    IF text = <<>> \/ text = ENOENT THEN text ELSE <<"<p>">> \o text \o <<"</p>">>

\* getToolOutputNames: the directories under output/ that hold a file
getToolOutputNames ==
    {dirName \in DOMAIN outputDir : Cardinality(DOMAIN outputDir[dirName]) # 0}

\* fs.existsSync on output/<dir>/<name>
existsOutput(dirName, name) ==
    dirName \in DOMAIN outputDir /\ name \in DOMAIN outputDir[dirName]

\* fs.readFileSync on output/<dir>/<name>
readOutput(dirName, name) ==
    IF existsOutput(dirName, name) THEN outputDir[dirName][name] ELSE ENOENT

\* the entry of one tool output file
ToolOutput(dirName, name) ==
    [type |-> TypeOf(dirName),
     content |-> IF TypeOf(dirName) = "markdown"
                 THEN makeHtml(readOutput(dirName, name))
                 ELSE readOutput(dirName, name)]

\* generateToolOutputs with an entry for every directory under output/, the
\* content being undefined where the tool wrote no file for the contract
generateToolOutputsEveryDir(names, toolNames) ==
    [i \in 1..Len(names) |->
        [name |-> names[i],
         outputs |-> [t \in DOMAIN outputDir |->
                        IF existsOutput(t, names[i]) THEN ToolOutput(t, names[i])
                        ELSE [type |-> TypeOf(t), content |-> undefined]]]]

\* generateToolOutputs with the file read without the existence check
generateToolOutputsUnguarded(names, toolNames) ==
    [i \in 1..Len(names) |->
        [name |-> names[i],
         outputs |-> [t \in toolNames |-> ToolOutput(t, names[i])]]]

\* generateToolOutputs with every text converted from markdown
generateToolOutputsAllHtml(names, toolNames) ==
    [i \in 1..Len(names) |->
        [name |-> names[i],
         outputs |-> [t \in {u \in toolNames : existsOutput(u, names[i])} |->
                        [type |-> TypeOf(t),
                         content |-> makeHtml(readOutput(t, names[i]))]]]]

\* generateToolOutputs with no key for a contract that has no tool output
generateToolOutputsNonEmpty(names, toolNames) ==
    LET all == [i \in 1..Len(names) |->
                  [name |-> names[i],
                   outputs |-> [t \in {u \in toolNames : existsOutput(u, names[i])} |->
                                  ToolOutput(t, names[i])]]]
        HasOutput(e) == DOMAIN e.outputs # {}
    IN  SelectSeq(all, HasOutput)

\* generateToolOutputs: per contract, per tool with a file of the name of
\* the contract, the type and the content
generateToolOutputs(names, toolNames) ==
    [i \in 1..Len(names) |->
        [name |-> names[i],
         outputs |-> [t \in {u \in toolNames : existsOutput(u, names[i])} |->
                        ToolOutput(t, names[i])]]]

\* a read of a missing file has thrown while the model was built
Thrown(files, tools) ==
    \/ \E i \in DOMAIN files :
          ENOENT \in {files[i].content.flatten, files[i].content.combine,
                      files[i].content.original}
    \/ \E i \in DOMAIN tools :
          \E t \in DOMAIN tools[i].outputs : tools[i].outputs[t].content = ENOENT

ReportInit ==
    /\ build = "lib"
    /\ now = 0
    /\ proc = [r \in Runs |-> NoRun(CHOOSE argv \in ParArgvs : argv.contractDir)]
    /\ workspaces = NoWorkspaces
    /\ fleet = {}
    /\ stage = "ready"
    /\ flattenDir \in Listings
    /\ combineDir \in SUBSET {flattenDir[i] : i \in DOMAIN flattenDir}
    /\ contractsTree \in
          SUBSET {path \in TreeFiles : \E i \in DOMAIN flattenDir : JoinDot(path) = flattenDir[i]}
    /\ outputDir = <<>>
    /\ contractNames = <<>>
    /\ fileOutputs = <<>>
    /\ toolOutputNames = {}
    /\ toolOutputs = <<>>
    /\ filePath = <<>>
    /\ nestedPath = <<>>

\* generateReport builds the render model from the workspace; a read that
\* throws ends it
buildModel ==
    /\ stage = "ready"
    /\ toolOutputNames' = getToolOutputNames
    /\ contractNames' = getContractNames(flattenDir)
    /\ fileOutputs' = generateFileOutputs(contractNames')
    /\ toolOutputs' = generateToolOutputs(contractNames', toolOutputNames')
    /\ stage' = IF Thrown(fileOutputs', toolOutputs') THEN "raised" ELSE "done"
    /\ UNCHANGED <<disk, normalizer, pipeline>>

ReportNext == buildModel

ReportSpec == ReportInit /\ [][ReportNext]_vars

(***************************************************************************)
(* The path of a flattened file in the source tree                         *)
(***************************************************************************)
\* the strings the function is tried on: one to MaxSegs + 1 segments,
\* the last of which need not be the extension
PathInputs ==
    {JoinDot(segs) :
        segs \in UNION {[1..n -> Segments \cup {Tail(DotSol)}] : n \in 1..(MaxSegs + 1)}}

PathInit ==
    /\ build = "lib"
    /\ now = 0
    /\ proc = [r \in Runs |-> NoRun(CHOOSE argv \in ParArgvs : argv.contractDir)]
    /\ workspaces = NoWorkspaces
    /\ fleet = {}
    /\ stage = "path"
    /\ flattenDir = <<>>
    /\ combineDir = {}
    /\ contractsTree = {}
    /\ outputDir = <<>>
    /\ contractNames = <<>>
    /\ fileOutputs = <<>>
    /\ toolOutputNames = {}
    /\ toolOutputs = <<>>
    /\ filePath \in PathInputs
    /\ nestedPath = <<>>

\* the function is applied; it has no throw, it returns for every string
normalize ==
    /\ stage = "path"
    /\ nestedPath' = getSubDirPathSplitted(filePath)
    /\ stage' = "pathDone"
    /\ UNCHANGED <<filePath, disk, model, pipeline>>

PathNext == normalize

PathSpec == PathInit /\ [][PathNext]_vars

(***************************************************************************)
(* The tools at work: docker-compose up until it closes, then the report   *)
(***************************************************************************)
MaxWrites == 2

\* what a tool writes into an output file: a line
Texts == {<<"no issues">>}

\* a directory without entries
NoFiles == [name \in {} |-> <<>>]

\* the number of files under output/
Written ==
    Cardinality({dn \in (DOMAIN outputDir) \X {flattenDir[i] : i \in DOMAIN flattenDir} :
                    dn[2] \in DOMAIN outputDir[dn[1]]})

\* the container of a tool writes output files; the one of solidity-coverage
\* needs a truffle project and writes none for a bare contract directory
Produces(t, argv) == t = "solidity-coverage" => ~argv.contractDir

\* the entries of contracts_flatten in the runs of the tools
AggregateNames == SourceFiles \cup {<<"t">> \o DotSol, Migrations \o DotSol}

\* the run is past setupWorkspace and executeTasks: docker-compose up runs
AggregateInit ==
    /\ build = "lib"
    /\ now = 0
    /\ \E argv \in {a \in Argvs : ArgsAccepted(a)} :
          proc = [r \in Runs |->
                    IF r = 1
                    THEN [NewRun(argv) EXCEPT !.touched = TRUE, !.created = TRUE,
                                              !.launched = {"docker-compose"},
                                              !.stages = <<"prepare", "schedule">>,
                                              !.pc = "awaitTasks"]
                    ELSE NoRun(argv)]
    /\ flattenDir \in
          {l \in UNION {[1..n -> AggregateNames] : n \in 0..MaxListing} :
              \A i, j \in DOMAIN l : i # j => l[i] # l[j]}
    /\ workspaces = [p \in {WORKSPACE_DIR_PATH(1)} |->
                       [flatten |-> SourceFiles \cap {flattenDir[i] : i \in DOMAIN flattenDir}]]
    /\ fleet = {WORKSPACE_DIR_PATH(1)}
    /\ stage = "up"
    /\ combineDir = {flattenDir[i] : i \in DOMAIN flattenDir}
    /\ contractsTree = {}
    /\ outputDir = NoFiles
    /\ contractNames = <<>>
    /\ fileOutputs = <<>>
    /\ toolOutputNames = {}
    /\ toolOutputs = <<>>
    /\ filePath = <<>>
    /\ nestedPath = <<>>

\* docker-compose up creates the containers of the started services, and
\* docker makes the host directory of every volume that is not there
composeUp ==
    /\ stage = "up"
    /\ outputDir' = [dirName \in UNION {OutputDirs(t) : t \in Started(proc[1].argv.tools)} |->
                        NoFiles]
    /\ stage' = "tools"
    /\ UNCHANGED <<flattenDir, combineDir, contractsTree, model, normalizer, pipeline>>

\* a tool writes the output file of a contract
toolWrites ==
    /\ stage = "tools"
    /\ Written < MaxWrites
    /\ \E t \in Started(proc[1].argv.tools) :
         /\ Produces(t, proc[1].argv)
         /\ \E dirName \in OutputDirs(t), i \in DOMAIN flattenDir, text \in Texts :
              /\ flattenDir[i] \notin DOMAIN outputDir[dirName]
              /\ outputDir' = [outputDir EXCEPT ![dirName] = (flattenDir[i] :> text) @@ @]
    /\ UNCHANGED <<stage, flattenDir, combineDir, contractsTree, model, normalizer, pipeline>>

\* docker-compose up closes with status 0 and start() goes on to the report
upClose ==
    /\ stage = "tools"
    /\ proc' = [proc EXCEPT ![1] =
                  [@ EXCEPT !.closeCode = 0, !.pc = "generateReport"]]
    /\ fleet' = fleet \ {WORKSPACE_DIR_PATH(1)}
    /\ stage' = "ready"
    /\ UNCHANGED <<build, now, workspaces, disk, model, normalizer>>

AggregateNext == composeUp \/ toolWrites \/ upClose \/ buildModel

AggregateSpec == AggregateInit /\ [][AggregateNext]_vars

(***************************************************************************)
(* Properties                                                              *)
(***************************************************************************)
Exited(r) == proc[r].pc = "exited"

\* C1: whenever a run that created its workspace directory ends, other than
\* by an interrupt, the directory no longer exists
C1_WorkspaceGoneAtExit ==
    \A r \in Runs :
        Exited(r) /\ proc[r].created /\ ~proc[r].sigArrived
            => ~Exists(WORKSPACE_DIR_PATH(r))

\* C2: once docker-compose up has closed with a non-zero status,
\* generateReport is never invoked, no report is written, and the run goes
\* through the catch block to a non-zero exit
C2_NoReportAfterFailedFleet ==
    \A r \in Runs :
        proc[r].closeCode > 0
            => /\ ~proc[r].reportInvoked
               /\ ~proc[r].reportWritten
               /\ proc[r].pc \in {"catch", "exited"}
               /\ Exited(r) => proc[r].exitCode # 0

C2_Witness ==
    \E r \in Runs :
        Exited(r) /\ proc[r].closeCode = 1 /\ proc[r].exitVia = "exit"
            /\ proc[r].exitCode = 1 /\ proc[r].prepared # {}

\* C3: a run that was given an unknown tool name ends with a non-zero status,
\* has launched no external process and has not created, removed or otherwise
\* touched the workspace directory
C3_UnknownToolRejectedUntouched ==
    \A r \in Runs :
        Exited(r) /\ ToolsInvalid(proc[r].argv)
            => /\ proc[r].exitCode # 0
               /\ proc[r].launched = {}
               /\ ~proc[r].touched

\* C4: a run ends with status 0 only when the report has been written, and
\* a run that fails or handles an interrupt ends with a non-zero status
C4_ZeroOnlyWithReport ==
    \A r \in Runs :
        Exited(r) => /\ proc[r].exitCode = 0 => proc[r].reportWritten
                     /\ (proc[r].handled \/ ~proc[r].reportWritten) => proc[r].exitCode # 0

\* C5: when a run of lib/index.js to which SIGINT was sent has ended, its
\* workspace directory is removed, and docker-compose stop was asked for
\* unless the containers of the run had ended
C5_InterruptCleansUp ==
    \A r \in Runs :
        build = "lib" /\ Exited(r) /\ proc[r].sigArrived
            => /\ ~Exists(WORKSPACE_DIR_PATH(r))
               /\ proc[r].stopAsked \/ WORKSPACE_DIR_PATH(r) \notin fleet

\* C6: a run whose SIGINT handler has run ends through process.exit, not
\* through an uncaught error
C6_HandlerEndsNormally ==
    \A r \in Runs :
        Exited(r) /\ proc[r].handled => proc[r].exitVia = "exit"

\* C7: two runs that have computed their workspace path never have the same
\* workspace directory and project identifier
C7_WorkspacesDistinct ==
    \A r1, r2 \in Runs :
        (r1 # r2 /\ proc[r1].pc \notin {"absent", "load"}
                 /\ proc[r2].pc \notin {"absent", "load"})
            => WORKSPACE_DIR_PATH(r1) # WORKSPACE_DIR_PATH(r2)

\* C8: the flattened listing that generateReport reads is the one that
\* setupWorkspace wrote: no tool has changed the input directory
C8_InputUnchangedByTools ==
    \A r \in Runs :
        proc[r].reportWritten => proc[r].listing = proc[r].prepared

\* C9: the slugs of the contracts of the model are pairwise distinct
C9_SlugsDistinct ==
    stage = "done"
        => \A i, j \in DOMAIN fileOutputs :
              i # j => fileOutputs[i].slug # fileOutputs[j].slug

\* the name without its trailing .sol, dots as hyphens, in lower case
ReferenceSlug(name) ==
    toLowerCase(replaceDots(SubSeq(name, 1, Len(name) - Len(DotSol)), "-"))

\* C10: the slug of every contract of the model is the reference slug of its
\* canonical name
C10_SlugIsReference ==
    stage = "done"
        => \A i \in DOMAIN fileOutputs :
              fileOutputs[i].slug = ReferenceSlug(fileOutputs[i].name)

\* the last two elements of a sequence (all of it when it is shorter)
LastTwo(seq) == IF Len(seq) < 2 THEN seq ELSE SubSeq(seq, Len(seq) - 1, Len(seq))

\* C11: for a name of n >= 2 segments the result has n - 1 segments: the
\* first n - 2 of the name in order, then the (n-1)-th with .sol appended
C11_NestedPathShape ==
    (stage = "pathDone" /\ Len(split(filePath)) >= 2)
        => LET segs == split(filePath)
               n == Len(segs)
           IN  /\ Len(nestedPath) = n - 1
               /\ \A i \in 1..(n - 2) : nestedPath[i] = segs[i]
               /\ nestedPath[n - 1] = segs[n - 1] \o DotSol

C11_Witness ==
    /\ stage = "pathDone"
    /\ Len(split(filePath)) = 2
    /\ Len(nestedPath) = 1

\* C12: applied to a name of fewer than 2 segments the function fails, it
\* returns no path
C12_OneSegmentFails ==
    (stage # "path" /\ filePath \in PathInputs /\ Len(split(filePath)) < 2)
        => stage = "pathFailed"

\* C13: for a name of at least 2 segments that ends in the extension, the
\* result joined with dots has the same last two segments as the name
C13_RoundTrip ==
    (stage = "pathDone" /\ Len(split(filePath)) >= 2
                        /\ LastTwo(split(filePath))[2] = Tail(DotSol))
        => LastTwo(split(JoinDot(nestedPath))) = LastTwo(split(filePath))

C13_Witness ==
    /\ stage = "pathDone"
    /\ Len(split(filePath)) = 3
    /\ LastTwo(split(filePath))[2] = Tail(DotSol)
    /\ Len(nestedPath) = 2

\* the contract keys of the aggregated model
FileKeys == {fileOutputs[k].name : k \in DOMAIN fileOutputs}

\* C16: once the model is built, every entry of the flattened listing but
\* Migrations.sol is a contract key exactly once, both of the file outputs and
\* of the tool outputs, whether or not it has a combined or an original
\* variant, and Migrations.sol is no key
C16_EveryContractOnce ==
    stage \in {"done", "raised"} =>
        /\ stage = "done"
        /\ \A i \in DOMAIN flattenDir :
              flattenDir[i] # Migrations \o DotSol =>
                  /\ Cardinality({k \in DOMAIN fileOutputs :
                                    fileOutputs[k].name = flattenDir[i]}) = 1
                  /\ Cardinality({k \in DOMAIN toolOutputs :
                                    toolOutputs[k].name = flattenDir[i]}) = 1
        /\ FileKeys \subseteq {flattenDir[i] : i \in DOMAIN flattenDir}
        /\ Migrations \o DotSol \notin FileKeys
        /\ \A k \in DOMAIN toolOutputs : toolOutputs[k].name # Migrations \o DotSol

C16_Witness ==
    /\ stage = "done"
    /\ \E i \in DOMAIN flattenDir : flattenDir[i] = Migrations \o DotSol
    /\ \E k \in DOMAIN fileOutputs :
          /\ fileOutputs[k].name \notin combineDir
          /\ getSubDirPathSplitted(fileOutputs[k].name) \notin contractsTree
          /\ DOMAIN toolOutputs[k].outputs = {}

\* C17: for every contract of the model, the flattened text is there; the
\* combined text is there when contracts_combine holds a file of the name and
\* is undefined (neither empty nor an error) when it does not; the original
\* text is there only when the nested path is a file of the contracts tree,
\* and is undefined otherwise; the model is built without a throw
C17_ContentVariants ==
    stage \in {"done", "raised"} =>
        /\ stage = "done"
        /\ \A k \in DOMAIN fileOutputs :
              LET name == fileOutputs[k].name
                  content == fileOutputs[k].content
              IN  /\ content.flatten = InputText("contracts_flatten", name)
                  /\ name \in combineDir =>
                        content.combine = InputText("contracts_combine", name)
                  /\ name \notin combineDir =>
                        content.combine = undefined /\ content.combine # <<>>
                  /\ content.original # undefined =>
                        /\ getSubDirPathSplitted(name) \in contractsTree
                        /\ content.original = InputText("contracts", name)
                  /\ getSubDirPathSplitted(name) \notin contractsTree =>
                        content.original = undefined

C17_Witness ==
    /\ stage = "done"
    /\ \E k \in DOMAIN fileOutputs :
          /\ fileOutputs[k].name \notin combineDir
          /\ fileOutputs[k].content.combine = undefined
          /\ fileOutputs[k].content.original = undefined
    /\ \E k \in DOMAIN fileOutputs :
          /\ fileOutputs[k].name \in combineDir
          /\ fileOutputs[k].content.original # undefined

\* generateReport has run to its end or has thrown
Built == stage \in {"done", "raised"}

\* C14: once the model is built, a directory under output/ that holds no
\* entry is a key under no contract of the tool outputs
C14_EmptyDirNoKey ==
    Built =>
        \A dirName \in DOMAIN outputDir :
            DOMAIN outputDir[dirName] = {} =>
                \A k \in DOMAIN toolOutputs : dirName \notin DOMAIN toolOutputs[k].outputs

C14_Witness ==
    /\ stage = "done"
    /\ "mythril" \in DOMAIN outputDir
    /\ DOMAIN outputDir["mythril"] = {}
    /\ \E k \in DOMAIN toolOutputs :
          /\ DOMAIN toolOutputs[k].outputs # {}
          /\ "mythril" \notin DOMAIN toolOutputs[k].outputs

\* C15: the model is built without a throw, and a contract has an entry
\* for a tool only if the output directory of the tool holds a file of the
\* name of the contract
C15_EntryOnlyForFile ==
    Built =>
        /\ stage = "done"
        /\ \A k \in DOMAIN toolOutputs :
              /\ DOMAIN toolOutputs[k].outputs \subseteq DOMAIN outputDir
              /\ \A dirName \in DOMAIN outputDir :
                    toolOutputs[k].name \notin DOMAIN outputDir[dirName] =>
                        dirName \notin DOMAIN toolOutputs[k].outputs

C15_Witness ==
    /\ stage = "done"
    /\ \E k \in DOMAIN toolOutputs, dirName \in toolOutputNames :
          /\ toolOutputs[k].name \notin DOMAIN outputDir[dirName]
          /\ dirName \notin DOMAIN toolOutputs[k].outputs

\* C18: every entry of the tool outputs has the type toolOutputFileTypeMap
\* gives its directory; its content is the text of the file, and for the type
\* markdown the HTML made of that text
C18_TypeAndContent ==
    Built =>
        \A k \in DOMAIN toolOutputs :
            \A dirName \in DOMAIN toolOutputs[k].outputs :
                LET entry == toolOutputs[k].outputs[dirName]
                    text == outputDir[dirName][toolOutputs[k].name]
                IN  /\ entry.type = toolOutputFileTypeMap[dirName]
                    /\ entry.type # "markdown" => entry.content = text
                    /\ entry.type = "markdown" =>
                          entry.content = IF text = <<>> THEN <<>>
                                          ELSE <<"<p>">> \o text \o <<"</p>">>

C18_Witness ==
    /\ stage = "done"
    /\ \E k \in DOMAIN toolOutputs :
          /\ toolOutputs[k].name = TokenSol
          /\ "solhint" \in DOMAIN toolOutputs[k].outputs
          /\ toolOutputs[k].outputs["solhint"] = [type |-> "text", content |-> <<"no issues">>]
          /\ "mythril" \in DOMAIN toolOutputs[k].outputs
          /\ toolOutputs[k].outputs["mythril"].content = <<"<p>", "no issues", "</p>">>

Rank(name) ==
    CASE name = "prepare" -> 1
      [] name = "schedule" -> 2
      [] name = "report" -> 3
      [] name = "teardown" -> 4

\* C20: the stages a run of start() has begun are in the order prepare,
\* schedule, report, teardown and none is begun twice; schedule is begun only
\* after the workspace is prepared, none is begun while docker-compose up is
\* still running, and the report is begun only after docker-compose up has
\* closed with status 0
C20_StagesInOrder ==
    \A r \in Runs :
        LET p == proc[r] IN
        /\ \A i, j \in DOMAIN p.stages : i < j => Rank(p.stages[i]) < Rank(p.stages[j])
        /\ \A i \in DOMAIN p.stages :
              /\ p.stages[i] = "schedule" => i > 1 /\ p.stages[i - 1] = "prepare"
              /\ p.stages[i] = "report" => i > 1 /\ p.stages[i - 1] = "schedule"
        /\ ~p.overlapped
        /\ p.reportInvoked => p.closeCode = 0

C20_Witness ==
    /\ proc[1].stages = <<"prepare", "schedule", "report", "teardown">>
    /\ proc[1].closeCode = 0
    /\ proc[1].pc = "exited"

\* C21: the SIGINT handler of a run has run only while start() was waiting
\* for the clone, for npm install or for docker-compose up; once it has run
\* the process has ended, and no stage of start() has begun after it, so none
\* has worked on the workspace the handler removed
C21_HandlerOnlyWhileWaiting ==
    \A r \in Runs :
        /\ proc[r].handledAt \in Awaiting \cup {"none"}
        /\ proc[r].handled =>
              /\ proc[r].handledAt \in Awaiting
              /\ proc[r].pc = "exited"
        /\ ~proc[r].afterHandler

C21_Witness ==
    /\ proc[1].handled
    /\ proc[1].handledAt = "awaitTasks"
    /\ proc[1].stages = <<"prepare", "schedule">>
    /\ proc[1].pc = "exited"
    /\ ~Exists(WORKSPACE_DIR_PATH(1))

\* the content types of the report
ContentTypes == {"markdown", "text", "html", "image"}

\* C22: every directory under output/ that the service of an enabled tool
\* mounts is a key of toolOutputFileTypeMap, with a content type as its value;
\* so every entry of the tool outputs has a content type, never undefined
C22_EveryOutputTyped ==
    /\ \A t \in AVAILABLE_TOOLS :
          \A dirName \in OutputDirs(t) :
              /\ dirName \in DOMAIN toolOutputFileTypeMap
              /\ toolOutputFileTypeMap[dirName] \in ContentTypes
    /\ Built =>
          \A k \in DOMAIN toolOutputs :
              \A dirName \in DOMAIN toolOutputs[k].outputs :
                  /\ toolOutputs[k].outputs[dirName].type \in ContentTypes
                  /\ toolOutputs[k].outputs[dirName].type # "undefined"

C22_Witness ==
    /\ stage = "done"
    /\ \E k \in DOMAIN toolOutputs :
          /\ "surya_graph" \in DOMAIN toolOutputs[k].outputs
          /\ toolOutputs[k].outputs["surya_graph"].type = "image"
          /\ "solidity-coverage" \in DOMAIN toolOutputs[k].outputs
          /\ toolOutputs[k].outputs["solidity-coverage"].type = "html"

\* C23: in the render model the file outputs and the tool outputs have the
\* same contract keys in the same order, those of the contract names; a
\* contract without a tool output has a key with no tool under it
C23_SameKeysSameOrder ==
    Built =>
        /\ Len(fileOutputs) = Len(contractNames)
        /\ Len(toolOutputs) = Len(contractNames)
        /\ \A k \in DOMAIN contractNames :
              /\ fileOutputs[k].name = contractNames[k]
              /\ toolOutputs[k].name = contractNames[k]

C23_Witness ==
    /\ stage = "done"
    /\ Len(toolOutputs) = 2
    /\ DOMAIN toolOutputs[1].outputs = {}
    /\ DOMAIN toolOutputs[2].outputs # {}
    /\ fileOutputs[1].name = toolOutputs[1].name
    /\ fileOutputs[2].name = toolOutputs[2].name

====
